---- MODULE Spec2Model ----
(***************************************************************************)
(* agora: a serverless chat node on libp2p.  The model covers the driving  *)
(* loop of main (src/main.rs), the application handler handle_swarm_event, *)
(* the publish helper, and the Behaviour of src/p2p.rs: its three          *)
(* inject_event handlers, its deferred action queue `events` and my_poll.  *)
(* The libp2p swarm, gossipsub, mdns and ping are the environment: they    *)
(* supply events and answers nondeterministically.                         *)
(***************************************************************************)
EXTENDS Integers, Sequences, FiniteSets, TLC

\* ---------------------------------------------------------------- bounds
\* Most established connections the swarm holds at a time, over all peers.
MaxConn == 2
\* Most actions pushed on `events` within one busy period of the queue
\* (from one empty queue to the next), under SpecBehaviour.
MaxEnq == 2
\* The same, under Spec.
MaxEnqApp == 1
\* Most messages on their way to the joining peer or waiting in its queue,
\* under SpecLateJoiner.
MaxFlight == 1
\* Most (peer, address) pairs in one Discovered event, and most Chat events
\* pushed ahead of it in one busy period of the queue, under SpecMdns.
MaxList == 3
MaxEnqMdns == 1

\* ------------------------------------------------------------ input sets
Peers == {1, 2}
Nicks == {"alice", "id1"}
Texts == {"hi"}
\* chrono::DateTime<Utc>: whole milliseconds and the sub-millisecond rest.
DateTimes == {[ms |-> 100, sub |-> 0], [ms |-> 100, sub |-> 7]}
\* --name of the local node (main.rs:27,59)
ArgsName == "bob"

\* Option<T>: None is <<>>, Some(x) is <<x>>.
None == <<>>
Some(x) == <<x>>

\* PeerId::to_string(): the textual (base58) identity of a peer.
PeerToString(p) == IF p = 1 THEN "id1" ELSE IF p = 2 THEN "id2" ELSE "id0"

\* ---------------------------------------------------------------- api.rs
Message(message, origin_timestamp) ==
    [type |-> "Message", message |-> message, origin_timestamp |-> origin_timestamp]

ChangeNickname(nick) == [type |-> "ChangeNickname", nick |-> nick]

\* CBOR data items of a payload, one record per item.
Item(t, s, i) == [t |-> t, s |-> s, i |-> i]
MapHdr(n) == Item("map", "", n)
TextItem(s) == Item("text", s, 0)
IntItem(i) == Item("int", "", i)

\* chrono::serde::ts_milliseconds: a DateTime travels as its millisecond count.
TsToMillis(dt) == dt.ms
TsFromMillis(ms) == [ms |-> ms, sub |-> 0]

\* serde_cbor::to_vec(&ChatApi): an externally tagged enum, a one-entry map
\* from the variant name to the map of its fields.
Encode(m) ==
    IF m.type = "Message"
    THEN << MapHdr(1), TextItem("Message"), MapHdr(2),
            TextItem("message"), TextItem(m.message),
            TextItem("origin_timestamp"), IntItem(TsToMillis(m.origin_timestamp)) >>
    ELSE << MapHdr(1), TextItem("ChangeNickname"), MapHdr(1),
            TextItem("nick"), TextItem(m.nick) >>

\* Mutant: a decoder that reads one value and ignores what follows it.
DecodeIgnoringTrailing(d) ==
    IF /\ Len(d) >= 5
       /\ d[1] = MapHdr(1) /\ d[2] = TextItem("ChangeNickname")
       /\ d[3] = MapHdr(1) /\ d[4] = TextItem("nick") /\ d[5].t = "text"
    THEN Some(ChangeNickname(d[5].s))
    ELSE IF /\ Len(d) >= 7
            /\ d[1] = MapHdr(1) /\ d[2] = TextItem("Message") /\ d[3] = MapHdr(2)
            /\ d[4] = TextItem("message") /\ d[5].t = "text"
            /\ d[6] = TextItem("origin_timestamp") /\ d[7].t = "int"
    THEN Some(Message(d[5].s, TsFromMillis(d[7].i)))
    ELSE None

\* serde_cbor::from_slice::<ChatApi>(&data): Ok(message) is <<message>>,
\* Err(_) is <<>> (wrong shape, unknown variant, truncated or trailing data).
Decode(d) ==
    IF /\ Len(d) = 5
       /\ d[1] = MapHdr(1) /\ d[2] = TextItem("ChangeNickname")
       /\ d[3] = MapHdr(1) /\ d[4] = TextItem("nick") /\ d[5].t = "text"
    THEN Some(ChangeNickname(d[5].s))
    ELSE IF /\ Len(d) = 7
            /\ d[1] = MapHdr(1) /\ d[2] = TextItem("Message") /\ d[3] = MapHdr(2)
            /\ d[4] = TextItem("message") /\ d[5].t = "text"
            /\ d[6] = TextItem("origin_timestamp") /\ d[7].t = "int"
    THEN Some(Message(d[5].s, TsFromMillis(d[7].i)))
    ELSE IF /\ Len(d) = 7
            /\ d[1] = MapHdr(1) /\ d[2] = TextItem("Message") /\ d[3] = MapHdr(2)
            /\ d[4] = TextItem("origin_timestamp") /\ d[5].t = "int"
            /\ d[6] = TextItem("message") /\ d[7].t = "text"
    THEN Some(Message(d[7].s, TsFromMillis(d[5].i)))
    ELSE None

ChatMsgs ==
    {ChangeNickname(n) : n \in Nicks}
        \cup {Message(t, dt) : t \in Texts, dt \in DateTimes}

\* Payloads that are no encoding of a ChatApi value: empty input, a bare
\* text item, an unknown variant, a truncated and an overlong encoding.
Garbage ==
    { << >>,
      << TextItem("hello") >>,
      << MapHdr(1), TextItem("Bogus"), MapHdr(1), TextItem("nick"), TextItem("alice") >>,
      SubSeq(Encode(ChangeNickname("alice")), 1, 4),
      Encode(ChangeNickname("alice")) \o << IntItem(0) >> }

Payloads == {Encode(m) : m \in ChatMsgs} \cup Garbage

\* ------------------------------------------------------------------ state
VARIABLES
    pc,               \* position of main: "init", "select", "poll", "exit_ok", "exit_err"
    connected_peers,  \* State.connected_peers
    known_nicknames,  \* State.known_nicknames, a function on the peers it holds
    events,           \* Behaviour.events, the deferred action queue
    established,      \* swarm: established connections per peer
    out,              \* the lines printed by the latest step
    last,             \* the event the latest step handled, and what it returned
    enq,              \* actions pushed on `events` since the queue was last empty
    polled,           \* actions my_poll returned since the queue was last empty
    joiner,           \* a second node running this program, and the way to it
    history           \* under SpecPresence, per peer: at_close, the nickname
                      \* recorded when the peer last became disconnected, and
                      \* notice, the presence notice last printed for it

vars == << pc, connected_peers, known_nicknames, events, established,
           out, last, enq, polled, joiner, history >>

\* ---------------------------------------------------------- output lines
ChatLine(ts, name, text) == [kind |-> "chat", ts |-> ts, name |-> name, text |-> text]
RenameLine(old, nick) == [kind |-> "renamed", old |-> old, nick |-> nick]
ConnectedLine(name) == [kind |-> "connected", name |-> name]
DisconnectedLine(name) == [kind |-> "disconnected", name |-> name]
NoPeersLine == [kind |-> "no_peers", text |-> "No peers available"]

\* ------------------------------------------------- handle_swarm_event
\* Mutant: the name shown is always the textual identity.
DisplayNameIdentity(nn, peer) == PeerToString(peer)

\* known_nicknames.get(&peer).unwrap_or(&peer.to_string())
DisplayName(nn, peer) ==
    IF peer \in DOMAIN nn THEN nn[peer] ELSE PeerToString(peer)

\* Mutant: entry(peer).or_insert(nick), which keeps a recorded nickname.
ChatNicknamesKeepFirst(nn, peer, message) ==
    IF message.type = "ChangeNickname" /\ peer \notin DOMAIN nn
    THEN (peer :> message.nick) @@ nn
    ELSE nn

\* BehaviourEvent::Chat: known_nicknames after the event.
ChatNicknames(nn, peer, message) ==
    IF message.type = "ChangeNickname"
    THEN (peer :> message.nick) @@ nn
    ELSE nn

\* Mutant: the `if old != nick` test is dropped.
ChatOutUnguarded(nn, peer, message) ==
    IF message.type = "Message"
    THEN << ChatLine(message.origin_timestamp, DisplayName(nn, peer), message.message) >>
    ELSE << RenameLine(DisplayName(nn, peer), message.nick) >>

\* BehaviourEvent::Chat: the lines it prints.
ChatOut(nn, peer, message) ==
    IF message.type = "Message"
    THEN << ChatLine(message.origin_timestamp, DisplayName(nn, peer), message.message) >>
    ELSE LET old == IF peer \in DOMAIN nn THEN nn[peer] ELSE PeerToString(peer)
         IN  IF old # message.nick
             THEN << RenameLine(old, message.nick) >>
             ELSE << >>

\* SwarmEvent::ConnectionEstablished: connected_peers.insert(peer_id)
EstablishedPeers(cp, peer_id) == cp \cup {peer_id}

\* Mutant: the notice is printed whether or not insert() added the peer.
EstablishedOutAlways(cp, nn, peer_id) ==
    << ConnectedLine(DisplayName(nn, peer_id)) >>

EstablishedOut(cp, nn, peer_id) ==
    IF peer_id \notin cp
    THEN << ConnectedLine(DisplayName(nn, peer_id)) >>
    ELSE << >>

\* SwarmEvent::ConnectionClosed { peer_id, num_established, .. }
\*     if num_established == 0
\* Mutant: the match guard `if num_established == 0` is dropped.
ClosedPeersUnguarded(cp, peer_id, num_established) == cp \ {peer_id}

ClosedPeers(cp, peer_id, num_established) ==
    IF num_established = 0 THEN cp \ {peer_id} ELSE cp

\* Mutant: the nickname of a peer that has disconnected is forgotten.
ClosedNicknamesPruned(nn, peer_id, num_established) ==
    IF num_established = 0
    THEN [q \in DOMAIN nn \ {peer_id} |-> nn[q]]
    ELSE nn

\* ConnectionClosed leaves known_nicknames as it is
\* (`// TODO: eventually gc state.known_nicknames`).
ClosedNicknames(nn, peer_id, num_established) == nn

\* Mutant: every closed connection is announced.
ClosedOutAlways(nn, peer_id, num_established) ==
    << DisconnectedLine(DisplayName(nn, peer_id)) >>

ClosedOut(nn, peer_id, num_established) ==
    IF num_established = 0
    THEN << DisconnectedLine(DisplayName(nn, peer_id)) >>
    ELSE << >>

\* ---------------------------------------------------------------- publish
\* gossipsub::error::PublishError, and "Ok" for Ok(message_id).
PublishErrors ==
    {"InsufficientPeers", "Duplicate", "SigningError", "MessageTooLarge", "TransformFailed"}

\* What gossipsub.publish may answer with `mesh` the peers it would send to.
GossipsubPublish(mesh) ==
    (IF mesh = {} THEN {"InsufficientPeers"} ELSE {"Ok"})
        \cup (PublishErrors \ {"InsufficientPeers"})

\* publish(): the lines printed for the answer of gossipsub.publish
PublishOut(res) ==
    IF res = "InsufficientPeers" THEN << NoPeersLine >> ELSE << >>

\* Mutant: the InsufficientPeers arm is missing, so it falls to Err(e) => Err(e)?
PublishOkStrict(res) == res = "Ok"

\* Mutant: every publish error is swallowed, publish() always returns Ok(()).
PublishOkAlways(res) == TRUE

\* publish(): TRUE for Ok(()), FALSE for Err(e)
PublishOk(res) == res \in {"Ok", "InsufficientPeers"}

\* ------------------------------------------------------------------ Init
Init ==
    /\ pc = "init"
    /\ connected_peers = {}
    /\ known_nicknames = << >>
    /\ events = << >>
    /\ established = [p \in Peers |-> 0]
    /\ out = << >>
    /\ last = [op |-> "start"]
    /\ enq = << >>
    /\ polled = << >>
    /\ history = [at_close |-> << >>, notice |-> << >>]
    /\ joiner = [joined |-> FALSE, missed |-> FALSE, flight |-> << >>,
                 events |-> << >>, known_nicknames |-> << >>, out |-> << >>]

\* main, up to the loop: bootstrap, listen_on and subscribe, each with `?`.
Startup(ok) ==
    /\ pc = "init"
    /\ pc' = IF ok THEN "select" ELSE "exit_err"
    /\ last' = [op |-> "startup", ok |-> ok]
    /\ out' = << >>
    /\ UNCHANGED << connected_peers, known_nicknames, events, established, enq, polled >>

\* ------------------------------------------------ swarm connection events
RECURSIVE SumOver(_, _)
SumOver(f, S) ==
    IF S = {} THEN 0
    ELSE LET x == CHOOSE y \in S : TRUE IN f[x] + SumOver(f, S \ {x})

NumEstablished(est) == SumOver(est, DOMAIN est)

\* The swarm reports a new established connection to peer_id; the loop's
\* swarm branch hands it to handle_swarm_event.
ConnectionEstablished(peer_id) ==
    /\ pc = "select"
    /\ NumEstablished(established) < MaxConn
    /\ established' = [established EXCEPT ![peer_id] = @ + 1]
    /\ connected_peers' = EstablishedPeers(connected_peers, peer_id)
    /\ out' = EstablishedOut(connected_peers, known_nicknames, peer_id)
    /\ last' = [op |-> "ConnectionEstablished", peer_id |-> peer_id,
                num_established |-> established[peer_id] + 1]
    /\ UNCHANGED << pc, known_nicknames, events, enq, polled >>

\* The swarm reports a closed connection and how many remain established.
ConnectionClosed(peer_id) ==
    /\ pc = "select"
    /\ established[peer_id] > 0
    /\ LET num_established == established[peer_id] - 1
       IN  /\ established' = [established EXCEPT ![peer_id] = num_established]
           /\ connected_peers' = ClosedPeers(connected_peers, peer_id, num_established)
           /\ out' = ClosedOut(known_nicknames, peer_id, num_established)
           /\ known_nicknames' =
                  ClosedNicknames(known_nicknames, peer_id, num_established)
           /\ last' = [op |-> "ConnectionClosed", peer_id |-> peer_id,
                       num_established |-> num_established]
    /\ UNCHANGED << pc, events, enq, polled >>

\* Every other SwarmEvent falls to the `_ => {}` arm (NewListenAddr logs).
OtherSwarmEvents == {"NewListenAddr", "IncomingConnectionError", "OutgoingConnectionError"}

OtherSwarmEvent(kind) ==
    /\ pc = "select"
    /\ last' = [op |-> kind]
    /\ out' = << >>
    /\ UNCHANGED << pc, connected_peers, known_nicknames, events, established, enq, polled >>

\* ------------------------------------------------------ Behaviour (p2p.rs)
\* NetworkBehaviourAction::GenerateEvent(BehaviourEvent::Chat { peer, message })
GenerateEvent(peer, message) ==
    [kind |-> "GenerateEvent", peer |-> peer, message |-> message]

\* Mutant: the dial options are built without .condition(..), which leaves
\* the default PeerCondition::Always.
DialOptsAlways(p, addrs) ==
    [peer_id |-> p, condition |-> "Always", addresses |-> addrs]

\* DialOpts::peer_id(p).condition(PeerCondition::Disconnected).addresses(addrs)
DialOpts(p, addrs) ==
    [peer_id |-> p, condition |-> "Disconnected", addresses |-> addrs]

\* NetworkBehaviourAction::Dial { opts, handler }
Dial(p, addrs) == [kind |-> "Dial", opts |-> DialOpts(p, addrs)]

\* Mutant: the message is attributed to the peer that forwarded it.
OriginPeerRelay(source, propagation_source) == propagation_source

\* let peer = message.source.unwrap_or(propagation_source)
OriginPeer(source, propagation_source) ==
    IF source # None THEN source[1] ELSE propagation_source

\* inject_event(GossipsubEvent::Message): the actions it pushes on `events`.
GossipActions(source, propagation_source, data) ==
    LET peer == OriginPeer(source, propagation_source)
        decoded == Decode(data)
    IN  IF decoded # None
        THEN << GenerateEvent(peer, decoded[1]) >>
        ELSE << >>

\* Mutant: addrs_per_peer.insert(p, vec![a]), which keeps the last address.
AddrsOfLastOnly(addrs, p) ==
    LET F[i \in 0..Len(addrs)] ==
            IF i = 0 THEN << >>
            ELSE IF addrs[i][1] = p THEN << addrs[i][2] >>
            ELSE F[i - 1]
    IN  F[Len(addrs)]

\* addrs_per_peer.entry(p).or_insert_with(Vec::new).push(a), for one peer:
\* the addresses listed with p, in their listed order.
AddrsOf(addrs, p) ==
    LET F[i \in 0..Len(addrs)] ==
            IF i = 0 THEN << >>
            ELSE IF addrs[i][1] = p THEN Append(F[i - 1], addrs[i][2])
            ELSE F[i - 1]
    IN  F[Len(addrs)]

DiscoveredPeers(addrs) == {addrs[i][1] : i \in 1..Len(addrs)}

Min(S) == CHOOSE x \in S : \A y \in S : x <= y

\* for (p, addrs) in addrs_per_peer: a BTreeMap iterates in ascending key order.
RECURSIVE DialsFor(_, _)
DialsFor(addrs, S) ==
    IF S = {} THEN << >>
    ELSE LET p == Min(S)
         IN  << Dial(p, AddrsOf(addrs, p)) >> \o DialsFor(addrs, S \ {p})

\* Mutant: one Dial per listed (peer, address) pair, without grouping by peer.
MdnsActionsUngrouped(event) ==
    IF event.kind = "Discovered"
    THEN [i \in 1..Len(event.addrs) |->
             Dial(event.addrs[i][1], << event.addrs[i][2] >>)]
    ELSE << >>

\* inject_event(MdnsEvent): the actions it pushes on `events`.
MdnsActions(event) ==
    IF event.kind = "Discovered"
    THEN DialsFor(event.addrs, DiscoveredPeers(event.addrs))
    ELSE << >>

\* Mutant: push_front instead of push_back.
PushFront(q, actions) == actions \o q

\* self.events.push_back(..) for each of `actions`
PushBack(q, actions) == q \o actions

\* Mutant: the queue is emptied once its first action is taken.
PopFrontRestCleared(q) == << >>

\* my_poll: the queue after self.events.pop_front()
PopFrontRest(q) == Tail(q)

\* Mutant: pop_back instead of pop_front.
PopBack(q) == q[Len(q)]

\* my_poll: the action self.events.pop_front() yields
PopFront(q) == Head(q)

\* The swarm runs a polled Dial only if its PeerCondition holds.
DialAttempted(opts, est) ==
    IF opts.condition = "Disconnected" THEN est[opts.peer_id] = 0 ELSE TRUE

Discovered(addrs) == [kind |-> "Discovered", addrs |-> addrs]
Expired(addrs) == [kind |-> "Expired", addrs |-> addrs]

GossipMessage(source, propagation_source, data) ==
    [source |-> source, propagation_source |-> propagation_source, data |-> data]

\* Inputs of Spec: every payload, each received directly from its author;
\* one peer discovered and expired.
AppGossip == {GossipMessage(None, q, d) : q \in Peers, d \in Payloads}
AppMdns == {Discovered(<< <<1, "a">> >>), Expired(<< <<1, "a">> >>)}

\* Inputs of SpecBehaviour: a chat line and two undecodable payloads, signed
\* or not, direct or relayed; discovery lists of one and of two peers.
BehGossip ==
    {GossipMessage(s, q, d) :
        s \in {None} \cup {Some(p) : p \in Peers}, q \in Peers,
        d \in {Encode(Message("hi", [ms |-> 100, sub |-> 0])),
               << >>,
               SubSeq(Encode(ChangeNickname("alice")), 1, 4)}}
BehMdns ==
    {Discovered(<< <<1, "a">> >>),
     Discovered(<< <<2, "a">>, <<1, "a">> >>),
     Discovered(<< <<1, "a">>, <<1, "b">> >>),
     Expired(<< <<1, "a">> >>)}

\* The swarm polls the Behaviour: each sub-behaviour's events are handed to
\* inject_event, then my_poll is called.  pc = "poll" until my_poll returns
\* GenerateEvent or Pending.
Inject(actions, label, max_enq) ==
    /\ pc \in {"select", "poll"}
    /\ Len(enq) + Len(actions) <= max_enq
    /\ events' = PushBack(events, actions)
    /\ enq' = enq \o actions
    /\ pc' = "poll"
    /\ out' = << >>
    /\ last' = label
    /\ UNCHANGED << connected_peers, known_nicknames, established, polled >>

InjectGossipMessage(source, propagation_source, data, max_enq) ==
    Inject(GossipActions(source, propagation_source, data),
           [op |-> "inject_gossip", source |-> source,
            propagation_source |-> propagation_source, data |-> data],
           max_enq)

\* GossipsubEvent::Subscribed, Unsubscribed, GossipsubNotSupported => {}
InjectGossipOther(kind) ==
    Inject(<< >>, [op |-> "inject_gossip_other", kind |-> kind], 0)

\* Mutant: a failed heartbeat has the peer dialled again.
PingActionsRedial(peer, result) ==
    IF result = "Failure" THEN << Dial(peer, << >>) >> ELSE << >>

\* inject_event(ping::PingEvent): the actions it pushes on `events`: none,
\* the handler only logs with debug!.
PingActions(peer, result) == << >>

InjectPing(peer, result) ==
    Inject(PingActions(peer, result),
           [op |-> "inject_ping", peer |-> peer, result |-> result], MaxEnq)

InjectMdns(event, max_enq) ==
    Inject(MdnsActions(event), [op |-> "inject_mdns", event |-> event], max_enq)

Pending == [kind |-> "Pending"]

\* my_poll, and what the caller does with a Ready action.  The swarm returns a
\* GenerateEvent to the loop, whose swarm branch hands it to
\* handle_swarm_event.  The swarm runs a Dial: when the attempt starts it
\* returns SwarmEvent::Dialing to the loop (the `_ => {}` arm), and when the
\* condition refuses the dial it polls the Behaviour again.
MyPoll ==
    /\ pc \in {"select", "poll"}
    /\ IF events = << >>
       THEN /\ pc' = "select"
            /\ out' = << >>
            /\ last' = [op |-> "my_poll", ret |-> Pending]
            /\ UNCHANGED << connected_peers, known_nicknames, events,
                            established, enq, polled >>
       ELSE LET event == PopFront(events)
                rest == PopFrontRest(events)
            IN  /\ events' = rest
                /\ enq' = IF rest = << >> THEN << >> ELSE enq
                /\ polled' = IF rest = << >> THEN << >> ELSE Append(polled, event)
                /\ IF event.kind = "GenerateEvent"
                   THEN /\ pc' = "select"
                        /\ known_nicknames' =
                               ChatNicknames(known_nicknames, event.peer, event.message)
                        /\ out' = ChatOut(known_nicknames, event.peer, event.message)
                        /\ last' = [op |-> "my_poll", ret |-> event]
                   ELSE LET attempted == DialAttempted(event.opts, established)
                        IN  /\ pc' = IF attempted THEN "select" ELSE "poll"
                            /\ out' = << >>
                            /\ last' = [op |-> "my_poll", ret |-> event,
                                        dial_attempted |-> attempted]
                            /\ UNCHANGED known_nicknames
                /\ UNCHANGED << connected_peers, established >>

\* ---------------------------------------------------- the other branches
StdinInputs ==
    {[kind |-> "line", text |-> t] : t \in Texts \cup {""}}
        \cup {[kind |-> "eof"], [kind |-> "err"]}

Connected == {p \in Peers : established[p] > 0}

\* Mutant: the test for an empty line is missing.
is_empty_never(message) == FALSE

\* message.is_empty()
is_empty(message) == message = ""

\* Mutant: end of input leaves the loop the way `break` does.
StdinPcEofBreaks(input) ==
    IF input.kind = "line" THEN "select"
    ELSE IF input.kind = "eof" THEN "exit_ok"
    ELSE "exit_err"

\* let message = line?.context("stdin closed")?;  where main goes when no
\* publish follows: a read error (Err(e)) and the end of input (Ok(None))
\* both return Err from main, a line lets the loop go on.
StdinPc(input) ==
    IF input.kind = "line" THEN "select" ELSE "exit_err"

\* line = stdin.next_line() => { .. }
StdinLine(input, now, mesh, res) ==
    /\ pc = "select"
    /\ IF input.kind = "line" /\ ~is_empty(input.text)
       THEN LET data == Encode(Message(input.text, now))
            IN  /\ res \in GossipsubPublish(mesh)
                /\ out' = PublishOut(res)
                /\ pc' = IF PublishOk(res) THEN "select" ELSE "exit_err"
                /\ last' = [op |-> "stdin", input |-> input, published |-> << data >>,
                            mesh |-> mesh, res |-> res]
       ELSE /\ res = "Ok" /\ mesh = {} /\ now = CHOOSE dt \in DateTimes : TRUE
            /\ out' = << >>
            /\ pc' = StdinPc(input)
            /\ last' = [op |-> "stdin", input |-> input, published |-> << >>]
    /\ UNCHANGED << connected_peers, known_nicknames, events, established, enq, polled >>

\* Mutant: the announcement is built as a chat line of the name.
msg_nickname_as_message == Encode(Message(ArgsName, CHOOSE dt \in DateTimes : TRUE))

\* serde_cbor::to_vec(&api::ChatApi::ChangeNickname { nick: args.name })
msg_nickname == Encode(ChangeNickname(ArgsName))

\* _ = ticker.tick() => { publish(.., &*msg_nickname)?; }
Tick(mesh, res) ==
    /\ pc = "select"
    /\ res \in GossipsubPublish(mesh)
    /\ out' = PublishOut(res)
    /\ pc' = IF PublishOk(res) THEN "select" ELSE "exit_err"
    /\ last' = [op |-> "tick", published |-> << msg_nickname >>, mesh |-> mesh, res |-> res]
    /\ UNCHANGED << connected_peers, known_nicknames, events, established, enq, polled >>

\* _ = tokio::signal::ctrl_c() => break
CtrlC ==
    /\ pc = "select"
    /\ pc' = "exit_ok"
    /\ out' = << >>
    /\ last' = [op |-> "ctrl_c"]
    /\ UNCHANGED << connected_peers, known_nicknames, events, established, enq, polled >>

\* What gossipsub may answer to one publish: the mesh is empty or holds every
\* connected peer; publish fails for lack of peers, for another reason, or not.
PublishAnswers ==
    {[mesh |-> m, res |-> r] :
        m \in {{}, Connected},
        r \in {"Ok", "InsufficientPeers", "MessageTooLarge", "SigningError"}}

Next(gossip, mdns, max_enq) ==
    \/ \E ok \in BOOLEAN : Startup(ok) /\ UNCHANGED << joiner, history >>
    \/ \E p \in Peers : ConnectionEstablished(p) /\ UNCHANGED << joiner, history >>
    \/ \E p \in Peers : ConnectionClosed(p) /\ UNCHANGED << joiner, history >>
    \/ \E k \in OtherSwarmEvents :
           OtherSwarmEvent(k) /\ UNCHANGED << joiner, history >>
    \/ \E g \in gossip :
           /\ InjectGossipMessage(g.source, g.propagation_source, g.data, max_enq)
           /\ UNCHANGED << joiner, history >>
    \/ \E k \in {"Subscribed", "Unsubscribed", "GossipsubNotSupported"} :
           InjectGossipOther(k) /\ UNCHANGED << joiner, history >>
    \/ \E p \in Peers, r \in {"Ok", "Failure"} :
           InjectPing(p, r) /\ UNCHANGED << joiner, history >>
    \/ \E e \in mdns : InjectMdns(e, max_enq) /\ UNCHANGED << joiner, history >>
    \/ MyPoll /\ UNCHANGED << joiner, history >>
    \/ \E i \in StdinInputs, now \in DateTimes, a \in PublishAnswers :
           StdinLine(i, now, a.mesh, a.res) /\ UNCHANGED << joiner, history >>
    \/ \E a \in PublishAnswers : Tick(a.mesh, a.res) /\ UNCHANGED << joiner, history >>
    \/ CtrlC /\ UNCHANGED << joiner, history >>

\* The node with the application's inputs in full.
Spec == Init /\ [][Next(AppGossip, AppMdns, MaxEnqApp)]_vars

\* The node with the Behaviour's inputs in full.
SpecBehaviour == Init /\ [][Next(BehGossip, BehMdns, MaxEnq)]_vars

\* ------------------------------------------- two nodes: the late joiner
\* PeerId::from(keypair.public()): the local node as its peers see it.  The
\* local node signs what it publishes (MessageAuthenticity::Signed).
local_peer_id == 0

\* The peer whose node joins late; `joiner` holds that node's queue and
\* nicknames, and joiner.flight the messages gossipsub has sent to it.
LateJoiner == Min(Peers)

\* The local node's topic mesh.
Mesh == IF joiner.joined THEN {LateJoiner} ELSE {}

LoopVars == << pc, connected_peers, known_nicknames, events, established,
               out, last, enq, polled >>

\* gossipsub sends a published message to the peers of the mesh.
Sent(flight, res, data) ==
    IF res = "Ok"
    THEN Append(flight, GossipMessage(Some(local_peer_id), local_peer_id, data))
    ELSE flight

InFlight == Len(joiner.flight) + Len(joiner.events)

\* The joiner's connections to the local node, opened and closed.
JoinerConnects ==
    /\ ConnectionEstablished(LateJoiner)
    /\ UNCHANGED << joiner, history >>

JoinerDisconnects ==
    /\ ConnectionClosed(LateJoiner)
    /\ joiner' = [joiner EXCEPT !.joined = @ /\ established'[LateJoiner] > 0]
    /\ UNCHANGED history

\* The joiner subscribes and is grafted into the mesh: the local gossipsub
\* reports GossipsubEvent::Subscribed, which inject_event ignores.
JoinMesh ==
    /\ established[LateJoiner] > 0
    /\ ~joiner.joined
    /\ InjectGossipOther("Subscribed")
    /\ joiner' = [joiner EXCEPT !.joined = TRUE]
    /\ UNCHANGED history

\* The ticker fires on the local node.
TickSent(res) ==
    /\ res = "Ok" => InFlight < MaxFlight
    /\ Tick(Mesh, res)
    /\ joiner' = [joiner EXCEPT !.flight = Sent(@, res, last'.published[1]),
                                !.missed = @ \/ ~joiner.joined]
    /\ UNCHANGED history

\* A line is typed on the local node.
StdinSent(input, now, res) ==
    /\ res = "Ok" => InFlight < MaxFlight
    /\ StdinLine(input, now, IF input.kind = "line" /\ ~is_empty(input.text) THEN Mesh ELSE {}, res)
    /\ joiner' = [joiner EXCEPT !.flight =
                      IF last'.published # << >>
                      THEN Sent(@, res, last'.published[1])
                      ELSE @]
    /\ UNCHANGED history

\* The joiner's gossipsub receives a message: its inject_event decodes the
\* payload and pushes the Chat event on its queue.
JoinerInject ==
    /\ joiner.flight # << >>
    /\ LET g == Head(joiner.flight)
       IN  joiner' = [joiner EXCEPT
                         !.flight = Tail(@),
                         !.events = PushBack(@, GossipActions(g.source,
                                                    g.propagation_source, g.data)),
                         !.out = << >>]
    /\ UNCHANGED << LoopVars, history >>

\* The joiner's my_poll returns the next Chat event to its loop, and its
\* handle_swarm_event handles it.
JoinerPoll ==
    /\ joiner.events # << >>
    /\ LET event == PopFront(joiner.events)
       IN  joiner' = [joiner EXCEPT
                         !.events = PopFrontRest(@),
                         !.known_nicknames = ChatNicknames(@, event.peer, event.message),
                         !.out = ChatOut(joiner.known_nicknames, event.peer, event.message)]
    /\ UNCHANGED << LoopVars, history >>

NextLateJoiner ==
    \/ Startup(TRUE) /\ UNCHANGED << joiner, history >>
    \/ JoinerConnects
    \/ JoinerDisconnects
    \/ JoinMesh
    \/ \E p \in Peers, r \in {"Ok", "Failure"} :
           InjectPing(p, r) /\ UNCHANGED << joiner, history >>
    \/ MyPoll /\ UNCHANGED << joiner, history >>
    \/ \E res \in GossipsubPublish(Mesh) \cap {"Ok", "InsufficientPeers", "MessageTooLarge"} :
           TickSent(res)
    \/ \E i \in StdinInputs, res \in {"Ok", "InsufficientPeers", "MessageTooLarge"} :
           StdinSent(i, CHOOSE dt \in DateTimes : TRUE, res)
    \/ CtrlC /\ UNCHANGED << joiner, history >>
    \/ JoinerInject
    \/ JoinerPoll

\* tokio::select! picks among its ready branches at random, so the ticker,
\* which is ready every 10 seconds, is taken again and again; the swarm calls
\* my_poll whenever it polls the Behaviour; a stable connection delivers what
\* was sent, and the joiner's loop keeps running.  With the joiner in the
\* mesh, gossipsub accepts the announcement.
Fairness ==
    /\ SF_vars(TickSent("Ok"))
    /\ WF_vars(MyPoll /\ UNCHANGED << joiner, history >>)
    /\ WF_vars(JoinerInject)
    /\ WF_vars(JoinerPoll)

\* Two nodes: the local node announcing, and a peer that joins its mesh.
SpecLateJoiner == Init /\ [][NextLateJoiner]_vars /\ Fairness

\* ------------------------------------- presence, with what was recorded
\* known_nicknames.get(&peer_id), as an Option
RecordedNick(nn, peer_id) ==
    IF peer_id \in DOMAIN nn THEN Some(nn[peer_id]) ELSE None

\* The presence notice last printed for each peer, after a step for
\* peer_id that printed `lines`.
Noticed(notice, peer_id, lines) ==
    IF lines = << >> THEN notice ELSE (peer_id :> lines[1].kind) @@ notice

PresenceEstablished(peer_id) ==
    /\ ConnectionEstablished(peer_id)
    /\ history' = [history EXCEPT !.notice = Noticed(@, peer_id, out')]
    /\ UNCHANGED joiner

\* at_close keeps what was recorded for the peer when its last connection
\* closed.
PresenceClosed(peer_id) ==
    /\ ConnectionClosed(peer_id)
    /\ history' =
           [history EXCEPT
               !.notice = Noticed(@, peer_id, out'),
               !.at_close =
                   IF established'[peer_id] = 0
                   THEN (peer_id :> RecordedNick(known_nicknames, peer_id)) @@ @
                   ELSE @]
    /\ UNCHANGED joiner

\* Nickname announcements, received directly or through another peer.
NickGossip ==
    {GossipMessage(Some(p), q, Encode(ChangeNickname(n))) :
        p \in Peers, q \in Peers, n \in Nicks}

NextPresence ==
    \/ Startup(TRUE) /\ UNCHANGED << joiner, history >>
    \/ \E p \in Peers : PresenceEstablished(p)
    \/ \E p \in Peers : PresenceClosed(p)
    \/ \E g \in NickGossip :
           /\ InjectGossipMessage(g.source, g.propagation_source, g.data, MaxEnqApp)
           /\ UNCHANGED << joiner, history >>
    \/ MyPoll /\ UNCHANGED << joiner, history >>

\* The node under connection events and nickname announcements only.
SpecPresence == Init /\ [][NextPresence]_vars

\* --------------------------------------------- discovery lists in full
Addrs == {"a", "b"}

RECURSIVE SeqsUpTo(_, _)
SeqsUpTo(S, n) ==
    IF n = 0 THEN {<< >>}
    ELSE LET shorter == SeqsUpTo(S, n - 1)
         IN  shorter \cup {Append(s, x) : s \in shorter, x \in S}

\* MdnsEvent::Discovered(list) for every list of up to MaxList pairs, and
\* MdnsEvent::Expired(list).
MdnsLists ==
    {Discovered(l) : l \in SeqsUpTo(Peers \X Addrs, MaxList)}
        \cup {Expired(<< <<1, "a">> >>)}

NextMdns ==
    \/ Startup(TRUE) /\ UNCHANGED << joiner, history >>
    \/ /\ InjectGossipMessage(Some(1), 1, Encode(ChangeNickname("alice")), MaxEnqMdns)
       /\ UNCHANGED << joiner, history >>
    \/ \E e \in MdnsLists :
           /\ \A i \in 1..Len(enq) : enq[i].kind = "GenerateEvent"
           /\ InjectMdns(e, MaxEnqMdns + Len(MdnsActions(e)))
           /\ UNCHANGED << joiner, history >>
    \/ MyPoll /\ UNCHANGED << joiner, history >>

\* The Behaviour under every discovery list, one list in each busy period of
\* the queue, behind the Chat events queued before it.
SpecMdns == Init /\ [][NextMdns]_vars

\* =================================================================== claims

\* C1: after the loop has handled any sequence of ConnectionEstablished and
\* ConnectionClosed events, a peer is in connected_peers if and only if the
\* swarm holds at least one established connection to it.
C1_ConnectedIffEstablished ==
    connected_peers = {p \in Peers : established[p] >= 1}

\* One of two connections to a peer has closed; the peer is still connected.
C1_Witness ==
    /\ last.op = "ConnectionClosed"
    /\ last.num_established = 1
    /\ last.peer_id \in connected_peers

HasLine(lines, kind) == \E i \in 1..Len(lines) : lines[i].kind = kind

\* C2: a ConnectionEstablished for a peer already in connected_peers prints
\* no "connected" notice; a "disconnected" notice is printed only by a
\* ConnectionClosed whose remaining established count is zero, for its peer;
\* a ConnectionClosed with a non-zero remaining count prints nothing and
\* leaves connected_peers unchanged.
C2_PresenceDedup ==
    [][ /\ (last'.op = "ConnectionEstablished" /\ last'.peer_id \in connected_peers)
            => out' = << >>
        /\ HasLine(out', "disconnected")
            => /\ last'.op = "ConnectionClosed"
               /\ last'.num_established = 0
               /\ out' = << DisconnectedLine(
                               IF last'.peer_id \in DOMAIN known_nicknames
                               THEN known_nicknames[last'.peer_id]
                               ELSE PeerToString(last'.peer_id)) >>
        /\ (last'.op = "ConnectionClosed" /\ last'.num_established # 0)
            => (out' = << >> /\ connected_peers' = connected_peers)
      ]_vars

\* A second connection to a connected peer was established, without notice.
C2_Witness ==
    /\ last.op = "ConnectionEstablished"
    /\ last.num_established = 2
    /\ out = << >>

\* The actions a step appended to the queue q, giving q2.
Appended(q, q2) == SubSeq(q2, Len(q) + 1, Len(q2))

DialsTo(actions, p) ==
    {i \in 1..Len(actions) : actions[i].kind = "Dial" /\ actions[i].opts.peer_id = p}

NamedIn(event, p) == \E i \in 1..Len(event.addrs) : event.addrs[i][1] = p

\* C3, as claimed: handling a Discovered observation that names a peer with an
\* established connection pushes no dial action for that peer.
C3_NoDialForConnected ==
    [][ (last'.op = "inject_mdns" /\ last'.event.kind = "Discovered")
            => \A p \in Peers :
                   (NamedIn(last'.event, p) /\ established[p] >= 1)
                       => DialsTo(Appended(events, events'), p) = {}
      ]_vars

\* C3, amended: handling a Discovered observation that names a peer with an
\* established connection pushes exactly one dial action for that peer, and
\* that action carries the condition Disconnected.
C3_DialForConnectedIsConditional ==
    [][ (last'.op = "inject_mdns" /\ last'.event.kind = "Discovered")
            => \A p \in Peers :
                   (NamedIn(last'.event, p) /\ established[p] >= 1)
                       => LET new == Appended(events, events')
                          IN  /\ Cardinality(DialsTo(new, p)) = 1
                              /\ \A i \in DialsTo(new, p) :
                                     new[i].opts.condition = "Disconnected"
      ]_vars

\* A connected peer was just discovered, and a dial action for it is queued.
C3_Witness ==
    /\ last.op = "inject_mdns"
    /\ last.event.kind = "Discovered"
    /\ \E p \in Peers :
           /\ NamedIn(last.event, p)
           /\ established[p] >= 1
           /\ DialsTo(events, p) # {}

\* C4: every queued dial action carries the condition Disconnected, and a
\* polled dial action for a peer that has an established connection when it
\* is executed starts no connection attempt.
C4_DialOnlyIfDisconnected ==
    /\ [](\A i \in 1..Len(events) :
              events[i].kind = "Dial" => events[i].opts.condition = "Disconnected")
    /\ [][ (last'.op = "my_poll" /\ last'.ret.kind = "Dial")
              => /\ last'.ret.opts.condition = "Disconnected"
                 /\ established[last'.ret.opts.peer_id] >= 1 => ~last'.dial_attempted
                 /\ established[last'.ret.opts.peer_id] = 0 => last'.dial_attempted
         ]_vars

\* A dial action was polled while its peer had an established connection,
\* and no attempt was made.
C4_Witness ==
    /\ last.op = "my_poll"
    /\ last.ret.kind = "Dial"
    /\ established[last.ret.opts.peer_id] >= 1
    /\ ~last.dial_attempted

\* C5: the actions my_poll returns are the actions pushed, in push order,
\* none dropped or duplicated; a poll returns Pending exactly when the queue
\* is empty, and one action otherwise.  enq and polled are the actions of the
\* current busy period of the queue.
C5_FifoLossless ==
    /\ [](polled \o events = enq)
    /\ [][ last'.op = "my_poll"
              => IF events = << >>
                 THEN last'.ret = Pending /\ events' = << >>
                 ELSE /\ last'.ret = enq[Len(polled) + 1]
                      /\ Len(events') = Len(events) - 1
         ]_vars
    /\ [][ last'.op # "my_poll" => Len(events') >= Len(events) ]_vars

\* A gossip message and a discovery were pushed, in either order; the first
\* has been returned and the second is still queued.
C5_Witness ==
    /\ last.op = "my_poll"
    /\ Len(enq) = 2
    /\ enq[1].kind # enq[2].kind
    /\ polled = << enq[1] >>
    /\ events = << enq[2] >>

\* The latest step handed Chat { peer, ChangeNickname { nick } } to the handler.
IsNickname(l) ==
    /\ l.op = "my_poll"
    /\ l.ret.kind = "GenerateEvent"
    /\ l.ret.message.type = "ChangeNickname"

\* C6: handling ChangeNickname { nick } from a peer whose recorded nickname
\* already is nick prints nothing and leaves known_nicknames unchanged.
C6_NicknameNoop ==
    [][ ( /\ IsNickname(last')
          /\ last'.ret.peer \in DOMAIN known_nicknames
          /\ known_nicknames[last'.ret.peer] = last'.ret.message.nick )
            => (out' = << >> /\ known_nicknames' = known_nicknames)
      ]_vars

\* Peer 1, recorded as "alice", announced "alice" again: nothing printed.
C6_Witness ==
    /\ IsNickname(last)
    /\ last.ret.peer = 1
    /\ last.ret.message.nick = "alice"
    /\ known_nicknames[1] = "alice"
    /\ out = << >>

\* C7, as claimed: handling ChangeNickname { nick } from a peer that has a
\* different recorded nickname, or none, records nick and prints exactly one
\* rename notice, from the recorded nickname or else the textual identity.
C7_NewNickAlwaysNotifies ==
    [][ ( /\ IsNickname(last')
          /\ \/ last'.ret.peer \notin DOMAIN known_nicknames
             \/ known_nicknames[last'.ret.peer] # last'.ret.message.nick )
            => LET peer == last'.ret.peer
                   nick == last'.ret.message.nick
                   old == IF peer \in DOMAIN known_nicknames
                          THEN known_nicknames[peer] ELSE PeerToString(peer)
               IN  /\ peer \in DOMAIN known_nicknames'
                   /\ known_nicknames'[peer] = nick
                   /\ out' = << RenameLine(old, nick) >>
      ]_vars

\* C7, amended: such an event always records nick, leaving the other peers'
\* entries alone, and prints exactly one rename notice, from the recorded
\* nickname or else the textual identity, unless the peer has no recorded
\* nickname and nick equals its textual identity: then it prints nothing.
C7_NewNickNotifiesUnlessIdentity ==
    [][ ( /\ IsNickname(last')
          /\ \/ last'.ret.peer \notin DOMAIN known_nicknames
             \/ known_nicknames[last'.ret.peer] # last'.ret.message.nick )
            => LET peer == last'.ret.peer
                   nick == last'.ret.message.nick
                   named == peer \in DOMAIN known_nicknames
                   old == IF named THEN known_nicknames[peer] ELSE PeerToString(peer)
               IN  /\ DOMAIN known_nicknames' = DOMAIN known_nicknames \cup {peer}
                   /\ known_nicknames'[peer] = nick
                   /\ \A q \in DOMAIN known_nicknames \ {peer} :
                          known_nicknames'[q] = known_nicknames[q]
                   /\ IF ~named /\ nick = PeerToString(peer)
                      THEN out' = << >>
                      ELSE out' = << RenameLine(old, nick) >>
      ]_vars

\* Peer 1, recorded as "alice", announced "id1": recorded, one notice.
C7_Witness ==
    /\ IsNickname(last)
    /\ last.ret.peer = 1
    /\ known_nicknames[1] = "id1"
    /\ out = << RenameLine("alice", "id1") >>

\* C8: a received gossip message that decodes pushes one Chat event whose
\* peer is the message's source when it has one, and the forwarding peer
\* only when it has none.
C8_OriginAttribution ==
    [][ (last'.op = "inject_gossip" /\ Decode(last'.data) # None)
            => events' = Append(events,
                   [kind |-> "GenerateEvent",
                    peer |-> IF last'.source # None
                             THEN last'.source[1]
                             ELSE last'.propagation_source,
                    message |-> Decode(last'.data)[1]])
      ]_vars

\* A message signed by peer 1 and forwarded by peer 2 is queued as peer 1's.
C8_Witness ==
    /\ last.op = "inject_gossip"
    /\ last.source = Some(1)
    /\ last.propagation_source = 2
    /\ events # << >>
    /\ events[Len(events)].kind = "GenerateEvent"
    /\ events[Len(events)].peer = 1

\* C9: a received gossip message whose payload is no encoding of a ChatApi
\* value pushes nothing on the queue, leaves connected_peers and
\* known_nicknames unchanged, prints nothing and does not end the loop.
C9_UndecodableDropped ==
    [][ (last'.op = "inject_gossip" /\ last'.data \in Garbage)
            => /\ events' = events
               /\ connected_peers' = connected_peers
               /\ known_nicknames' = known_nicknames
               /\ out' = << >>
               /\ pc' \notin {"exit_ok", "exit_err"}
      ]_vars

\* An encoding followed by one more item was received, and dropped.
C9_Witness ==
    /\ last.op = "inject_gossip"
    /\ last.data = Encode(ChangeNickname("alice")) \o << IntItem(0) >>
    /\ events = << >>
    /\ out = << >>
    /\ pc = "poll"

C11_InputClosedOrInterruptIsSuccess ==
    [][ ( \/ last'.op = "ctrl_c"
          \/ (last'.op = "stdin" /\ last'.input.kind = "eof") )
            => pc' = "exit_ok"
      ]_vars

\* C11, amended: the interrupt signal ends the loop and main returns success;
\* the end of local input ends the loop and main returns an error; main
\* returns success after nothing but the interrupt signal; both leave State
\* and the queue alone and print nothing, and nothing runs after either.
C11_InterruptIsSuccessInputClosedIsError ==
    /\ [][ last'.op = "ctrl_c" => pc' = "exit_ok" ]_vars
    /\ [][ (last'.op = "stdin" /\ last'.input.kind = "eof") => pc' = "exit_err" ]_vars
    /\ [][ pc' = "exit_ok" => last'.op = "ctrl_c" ]_vars
    /\ [][ ( \/ last'.op = "ctrl_c"
             \/ (last'.op = "stdin" /\ last'.input.kind = "eof") )
              => /\ out' = << >>
                 /\ connected_peers' = connected_peers
                 /\ known_nicknames' = known_nicknames
                 /\ events' = events
         ]_vars
    /\ [][ pc \notin {"exit_ok", "exit_err"} ]_vars

\* The local input closed while a peer was connected: main returned an error.
C11_Witness ==
    /\ last.op = "stdin"
    /\ last.input.kind = "eof"
    /\ pc = "exit_err"
    /\ connected_peers # {}

\* The latest step published, and gossipsub answered with an error other
\* than InsufficientPeers.
PublishFailed(l) ==
    /\ l.op \in {"stdin", "tick"}
    /\ l.published # << >>
    /\ l.res \notin {"Ok", "InsufficientPeers"}

\* The latest step read no line from the local input: a read error or its end.
NoLine(l) == l.op = "stdin" /\ l.input.kind \in {"eof", "err"}

\* C12, as claimed: once initialization has succeeded, no failure arising
\* while the loop runs ends the process with an error; only a failed
\* initialization does.
C12_NoLoopFailurePropagates ==
    /\ [][ pc' = "exit_err" => (last'.op = "startup" /\ ~last'.ok) ]_vars
    /\ [][ PublishFailed(last') => pc' # "exit_err" ]_vars

\* C12, amended: once initialization has succeeded, a publish refused for
\* want of peers, a connection error event, a heartbeat failure and an
\* undecodable payload leave the loop running; main returns an error exactly
\* after a failed initialization, a publish error other than
\* InsufficientPeers, or a read error or the end of the local input.
C12_ContainedExceptPublishAndInput ==
    /\ [][ pc' = "exit_err"
              <=> \/ (last'.op = "startup" /\ ~last'.ok)
                  \/ PublishFailed(last')
                  \/ NoLine(last') ]_vars
    /\ [][ ( \/ last'.op \in {"IncomingConnectionError", "OutgoingConnectionError"}
             \/ (last'.op = "inject_ping" /\ last'.result = "Failure")
             \/ (last'.op = "inject_gossip" /\ Decode(last'.data) = None)
             \/ ( /\ last'.op \in {"stdin", "tick"}
                  /\ last'.published # << >>
                  /\ last'.res = "InsufficientPeers" ) )
              => pc' \in {"select", "poll"}
         ]_vars

\* A typed line was too large for gossipsub to publish, with a peer in the
\* mesh: main returned the error.
C12_Witness ==
    /\ last.op = "stdin"
    /\ last.published # << >>
    /\ last.res = "MessageTooLarge"
    /\ last.mesh # {}
    /\ pc = "exit_err"

\* The joiner has recorded the local node's nickname.
JoinerKnows ==
    /\ local_peer_id \in DOMAIN joiner.known_nicknames
    /\ joiner.known_nicknames[local_peer_id] = ArgsName

\* C13: every tick of the loop publishes the local node's ChangeNickname
\* envelope; and, ticks being fair and the mesh connection stable, a peer
\* that joins the local node's mesh at any time eventually records the local
\* node's nickname, for as long as the local loop runs and the peer stays in
\* the mesh.
C13_LateJoinerLearnsNickname ==
    /\ [](last.op = "tick"
             => last.published = << Encode(ChangeNickname(ArgsName)) >>)
    /\ (joiner.joined
           ~> (JoinerKnows \/ ~joiner.joined \/ pc \in {"exit_ok", "exit_err"}))

\* A peer that joined after an announcement had gone out without it has
\* recorded the nickname from a later one.
C13_Witness ==
    /\ joiner.missed
    /\ joiner.joined
    /\ JoinerKnows
    /\ pc = "select"

\* The latest step took a branch of select! other than the swarm's.
OtherSource(l) == l.op \in {"stdin", "tick", "ctrl_c"}

\* C14, as claimed: no local input line, tick or shutdown signal is
\* processed while the deferred action queue is non-empty.
C14_DrainedBeforeOtherSources ==
    [][ OtherSource(last') => events = << >> ]_vars

\* C14, amended: each poll with a non-empty queue takes exactly its first
\* action; a poll that yields a Chat event or starts a dial returns to the
\* loop, and only a dial its condition refuses is followed by the next poll
\* at once; the loop may take a line, a tick or the shutdown signal while
\* actions are queued, and doing so leaves the queue as it is.
C14_OnePerPollThenAnySource ==
    /\ [][ (last'.op = "my_poll" /\ events # << >>)
              => /\ last'.ret = Head(events)
                 /\ events' = Tail(events)
                 /\ pc' = IF last'.ret.kind = "Dial" /\ ~last'.dial_attempted
                          THEN "poll" ELSE "select"
         ]_vars
    /\ [][ OtherSource(last') => (pc = "select" /\ events' = events) ]_vars
    /\ [][ pc = "poll" => ~OtherSource(last') ]_vars

\* The ticker was served while an action was still queued.
C14_Witness ==
    /\ last.op = "tick"
    /\ events # << >>
    /\ enq # events

\* C15: a non-empty line read from the local input makes exactly one publish
\* attempt, of one Message envelope that carries the line's text; an empty
\* line makes none, prints nothing, changes no state and lets the loop go on.
C15_LinePublishedOnce ==
    [][ (last'.op = "stdin" /\ last'.input.kind = "line")
            => IF last'.input.text # ""
               THEN /\ Len(last'.published) = 1
                    /\ Decode(last'.published[1]) # None
                    /\ Decode(last'.published[1])[1].type = "Message"
                    /\ Decode(last'.published[1])[1].message = last'.input.text
               ELSE /\ last'.published = << >>
                    /\ out' = << >>
                    /\ pc' = "select"
                    /\ connected_peers' = connected_peers
                    /\ known_nicknames' = known_nicknames
                    /\ events' = events
      ]_vars

\* The line "hi" was typed and gossipsub took its one envelope.
C15_Witness ==
    /\ last.op = "stdin"
    /\ last.input = [kind |-> "line", text |-> "hi"]
    /\ Len(last.published) = 1
    /\ last.res = "Ok"
    /\ pc = "select"

\* The latest step handed Chat { peer, Message { .. } } to the handler.
IsChatMessage(l) ==
    /\ l.op = "my_poll"
    /\ l.ret.kind = "GenerateEvent"
    /\ l.ret.message.type = "Message"

\* C16: handling a chat Message from a peer prints exactly one chat line,
\* with the message's timestamp and text, under the peer's recorded nickname
\* if it has one and its textual identity otherwise, and leaves
\* connected_peers and known_nicknames unchanged, whether or not the peer is
\* in connected_peers.
C16_ChatLineNoMutation ==
    [][ IsChatMessage(last')
            => LET peer == last'.ret.peer
                   name == IF peer \in DOMAIN known_nicknames
                           THEN known_nicknames[peer]
                           ELSE PeerToString(peer)
               IN  /\ out' = << [kind |-> "chat",
                                 ts |-> last'.ret.message.origin_timestamp,
                                 name |-> name,
                                 text |-> last'.ret.message.message] >>
                   /\ connected_peers' = connected_peers
                   /\ known_nicknames' = known_nicknames
      ]_vars

\* A chat line of peer 1, which is not connected and is recorded as
\* "alice", was printed under that name.
C16_Witness ==
    /\ IsChatMessage(last)
    /\ last.ret.peer = 1
    /\ 1 \notin connected_peers
    /\ 1 \in DOMAIN known_nicknames
    /\ known_nicknames[1] = "alice"
    /\ Len(out) = 1
    /\ out[1].name = "alice"

\* The latest step handled the first connection to a peer that had been
\* connected before: a reconnect.  `ac` is at_close before the step.
IsReconnect(l, cp, ac) ==
    /\ l.op = "ConnectionEstablished"
    /\ l.peer_id \notin cp
    /\ l.peer_id \in DOMAIN ac

\* ConnectionClosed leaves known_nicknames alone, and no step removes a
\* peer from it.
NicknamesRetained ==
    /\ [][ last'.op = "ConnectionClosed" => known_nicknames' = known_nicknames ]_vars
    /\ [][ /\ DOMAIN known_nicknames \subseteq DOMAIN known_nicknames'
           /\ \A q \in DOMAIN known_nicknames :
                  known_nicknames'[q] # known_nicknames[q]
                      => (IsNickname(last') /\ last'.ret.peer = q)
         ]_vars

\* C17, as claimed: ConnectionClosed never alters known_nicknames, the set
\* of named peers only grows, and the "connected" notice of a peer that
\* reconnects uses the nickname recorded before it disconnected.
C17_ReconnectUsesNickAtClose ==
    /\ NicknamesRetained
    /\ [][ (IsReconnect(last', connected_peers, history.at_close)
              /\ history.at_close[last'.peer_id] # None)
              => out' = << [kind |-> "connected",
                            name |-> history.at_close[last'.peer_id][1]] >>
         ]_vars

\* C17, amended: ConnectionClosed never alters known_nicknames, the set of
\* named peers only grows and an entry changes only by a ChangeNickname of
\* its peer; the "connected" notice of a peer that reconnects uses the
\* nickname recorded for it at that time, which is the one recorded before
\* it disconnected unless a ChangeNickname of that peer has replaced it since.
C17_ReconnectUsesRetainedNick ==
    /\ NicknamesRetained
    /\ [][ (IsReconnect(last', connected_peers, history.at_close)
              /\ history.at_close[last'.peer_id] # None)
              => /\ last'.peer_id \in DOMAIN known_nicknames
                 /\ out' = << [kind |-> "connected",
                               name |-> known_nicknames[last'.peer_id]] >>
         ]_vars

\* Peer 1, recorded as "alice" when it disconnected, has reconnected and
\* was announced as "alice".
C17_Witness ==
    /\ last.op = "ConnectionEstablished"
    /\ last.peer_id = 1
    /\ last.num_established = 1
    /\ 1 \in DOMAIN history.at_close
    /\ history.at_close[1] = Some("alice")
    /\ out = << ConnectedLine("alice") >>

\* C18: a heartbeat event of a connection to a peer, a failure included,
\* pushes no action on the queue, does not end the loop, and changes neither
\* the membership in connected_peers nor the recorded nickname of any other
\* peer.
C18_HeartbeatIsolation ==
    [][ last'.op = "inject_ping"
            => /\ events' = events
               /\ pc' \notin {"exit_ok", "exit_err"}
               /\ \A q \in Peers \ {last'.peer} :
                      /\ (q \in connected_peers') = (q \in connected_peers)
                      /\ (q \in DOMAIN known_nicknames') = (q \in DOMAIN known_nicknames)
                      /\ q \in DOMAIN known_nicknames
                             => known_nicknames'[q] = known_nicknames[q]
      ]_vars

\* The heartbeat to peer 1 failed while peer 2 was connected and named:
\* peer 2 still is, and the swarm goes on to my_poll.
C18_Witness ==
    /\ last.op = "inject_ping"
    /\ last.result = "Failure"
    /\ last.peer = 1
    /\ 2 \in connected_peers
    /\ 2 \in DOMAIN known_nicknames
    /\ pc = "poll"

\* C19: for each peer the "connected" and "disconnected" notices alternate,
\* beginning with "connected": a "connected" notice is printed, by a
\* ConnectionEstablished of the peer, only when the peer's last notice was
\* "disconnected" or it has had none; a "disconnected" notice is printed, by
\* a ConnectionClosed of the peer, only when its last notice was "connected".
C19_NoticesAlternate ==
    /\ [][ HasLine(out', "connected")
              => /\ last'.op = "ConnectionEstablished"
                 /\ Len(out') = 1
                 /\ \/ last'.peer_id \notin DOMAIN history.notice
                    \/ history.notice[last'.peer_id] = "disconnected"
         ]_vars
    /\ [][ HasLine(out', "disconnected")
              => /\ last'.op = "ConnectionClosed"
                 /\ Len(out') = 1
                 /\ last'.peer_id \in DOMAIN history.notice
                 /\ history.notice[last'.peer_id] = "connected"
         ]_vars

\* Peer 1 was announced connected, then disconnected, then connected again.
C19_Witness ==
    /\ last.op = "ConnectionEstablished"
    /\ last.peer_id = 1
    /\ HasLine(out, "connected")
    /\ 1 \in DOMAIN history.at_close
    /\ history.notice[1] = "connected"

\* The addresses listed with peer p in `addrs`, in their listed order.
ListedFor(addrs, p) ==
    LET pairs == SelectSeq(addrs, LAMBDA x : x[1] = p)
    IN  [k \in 1..Len(pairs) |-> pairs[k][2]]

\* C20: handling one Discovered event appends to the queue, behind what was
\* queued, exactly one dial action per distinct peer of its list, in
\* ascending order of peer identity, each with all and only the addresses
\* listed for its peer, in their listed order; an Expired event pushes
\* nothing.
C20_OneDialPerPeerInOrder ==
    [][ last'.op = "inject_mdns"
            => LET addrs == last'.event.addrs
                   new == Appended(events, events')
               IN  IF last'.event.kind = "Discovered"
                   THEN /\ Len(events') >= Len(events)
                        /\ SubSeq(events', 1, Len(events)) = events
                        /\ \A i \in 1..Len(new) : new[i].kind = "Dial"
                        /\ \A p \in Peers :
                               Cardinality(DialsTo(new, p)) =
                                   IF NamedIn(last'.event, p) THEN 1 ELSE 0
                        /\ \A i, j \in 1..Len(new) :
                               i < j => new[i].opts.peer_id < new[j].opts.peer_id
                        /\ \A i \in 1..Len(new) :
                               new[i].opts.addresses = ListedFor(addrs, new[i].opts.peer_id)
                   ELSE events' = events
      ]_vars

\* Peer 2 at "a", peer 1 at "a" and peer 2 at "b" were discovered with a
\* Chat event queued: behind it, a dial of peer 1 and then one of peer 2
\* with both its addresses.
C20_Witness ==
    /\ last.op = "inject_mdns"
    /\ last.event = Discovered(<< <<2, "a">>, <<1, "a">>, <<2, "b">> >>)
    /\ Len(events) = 3
    /\ events[1].kind = "GenerateEvent"
    /\ events[2].opts.peer_id = 1
    /\ events[2].opts.addresses = << "a" >>
    /\ events[3].opts.peer_id = 2
    /\ events[3].opts.addresses = << "a", "b" >>

====
